---- MODULE Spec2Model ----
(***************************************************************************)
(* Causal message ordering among a fixed group of processes, as            *)
(* implemented by the three programs of the repository:                    *)
(*   BSS.py          ProcessBSS  vector clocks, full causal check          *)
(*   SES.py          ProcessSES  vector clocks, sender-only check          *)
(*   MatrixClock.py  Process     matrix clocks                             *)
(* One run uses one program (policy), chosen in Init.  GUI calls           *)
(* (update_log, animate_message, sleep, print) do not touch protocol       *)
(* state and are left out, except that the DELIVERED log line of BSS/SES   *)
(* is recorded in `delivered` (MatrixClock.py keeps that list itself).     *)
(***************************************************************************)
EXTENDS Integers, Sequences, FiniteSets, TLC

\* ------------------------------------------------------------------ bounds
\* Total number of send_message calls in a run.
MaxSends == 3
\* How many times in a run a message that was already handed to
\* receive_message may be handed to it again.
MaxDup == 1
\* How many hand-built (not sent) messages a run may hand to receive_message.
MaxForged == 1
\* Number of send_message calls in a run that also hands over hand-built
\* messages.
MaxSendsForged == 2

\* ------------------------------------------------------ program constants
\* BSSGUI.num_processes / SESGUI.num_processes
num_processes == 3
\* MatrixClock.PROCESS_NAMES, in list order
PROCESS_NAMES == <<"P1", "P2", "P3">>

VARIABLES
    policy,        \* "BSS" | "SES" | "Matrix": which program runs
    vector_clock,  \* BSS/SES: [process id -> self.vector_clock]
    buffer,        \* BSS/SES: [process id -> self.buffer] (list of messages)
    matrix,        \* Matrix: [name -> self.matrix] (dict of dict)
    pending,       \* Matrix: [name -> self.pending]
    delivered,     \* [process -> ids delivered, in order] (Process.delivered;
                   \*  the DELIVERED log lines of BSS/SES)
    msgs,          \* the message objects built by send_message, in send order
    handed,        \* handed[i]: times msgs[i] was passed to receive_message
    nforged,       \* number of hand-built messages passed to receive_message
    last           \* the last call: [op, proc, msg, res, n]

vars == <<policy, vector_clock, buffer, matrix, pending, delivered,
          msgs, handed, nforged, last>>

VecProcs == 0 .. (num_processes - 1)
Names == {PROCESS_NAMES[k] : k \in 1 .. Len(PROCESS_NAMES)}
Procs == IF policy = "Matrix" THEN Names ELSE VecProcs

Max(a, b) == IF a >= b THEN a ELSE b

\* np.zeros(num_processes, dtype=int)
zeros == [i \in VecProcs |-> 0]

\* initial_matrix()
initial_matrix == [p \in Names |-> [q \in Names |-> 0]]

\* ---------------------------------------------------------------- history
\* Ids of the messages whose send happened-before the present point of
\* process p: p's own sends, the messages delivered at p, and their pasts.
PastOf(p, ms, dl) ==
    LET direct == {i \in 1 .. Len(ms) : ms[i].sender = p}
                    \cup {dl[k] : k \in 1 .. Len(dl)}
    IN  direct \cup UNION {ms[i].past : i \in direct \cap (1 .. Len(ms))}

\* -------------------------------------------------------- object identity
\* The object a process keeps its clock in.  BSS/SES: np.maximum returns a
\* new array, bound to self.vector_clock at every delivery, and
\* increment_clock() writes into the array in place.  MatrixClock:
\* self.matrix is one dict for the whole run, written in place by
\* send_message and deliver_message.
ClockObj(p) ==
    [kind |-> "clock", owner |-> p,
     gen |-> IF policy = "Matrix" THEN 0 ELSE Len(delivered[p])]

\* the snapshot taken without a copy: the message holds the clock object
clock_share(obj, fresh) == obj

\* self.vector_clock.copy() / copy.deepcopy(self.matrix): a new object
clock_copy(obj, fresh) == fresh

\* A write into object o shows through every reference to o: each message
\* of q whose snapshot is that object now holds val.
WriteThrough(q, o, val) ==
    [k \in 1 .. Len(q) |->
        IF q[k].obj # o THEN q[k]
        ELSE IF policy = "Matrix" THEN [q[k] EXCEPT !.matrix = val]
        ELSE [q[k] EXCEPT !.timestamp = val]]

\* ------------------------------------------------- BSS / SES: the checks
\* the increment written without the index: every entry is raised
increment_clock_all(vc, id) == [i \in DOMAIN vc |-> vc[i] + 1]

\* increment_clock(): self.vector_clock[self.id] += 1
increment_clock(vc, id) == [vc EXCEPT ![id] = @ + 1]

\* all(self.vector_clock[i] >= timestamp[i]
\*     for i in range(self.num_processes) if i != sender), from index i on.
\* A timestamp shorter than num_processes raises IndexError when indexed.
RECURSIVE AllOthers(_, _, _, _)
AllOthers(vc, ts, sender, i) ==
    IF i = num_processes THEN "True"
    ELSE IF i = sender THEN AllOthers(vc, ts, sender, i + 1)
    ELSE IF i \notin DOMAIN ts THEN "IndexError"
    ELSE IF vc[i] >= ts[i] THEN AllOthers(vc, ts, sender, i + 1)
    ELSE "False"

\* the sender test written with <=: a gap in the sender's sequence passes
SenderNextLe(vc, ts, sender) ==
    IF sender \notin DOMAIN vc \/ sender \notin DOMAIN ts THEN "IndexError"
    ELSE IF vc[sender] <= ts[sender] - 1 THEN "True" ELSE "False"

\* the sender test written with >=: an old message of the sender passes
SenderNextGe(vc, ts, sender) ==
    IF sender \notin DOMAIN vc \/ sender \notin DOMAIN ts THEN "IndexError"
    ELSE IF vc[sender] >= ts[sender] - 1 THEN "True" ELSE "False"

\* self.vector_clock[sender] == timestamp[sender] - 1
SenderNext(vc, ts, sender) ==
    IF sender \notin DOMAIN vc \/ sender \notin DOMAIN ts THEN "IndexError"
    ELSE IF vc[sender] = ts[sender] - 1 THEN "True" ELSE "False"

\* the BSS check with the sender clause left out
BSS_check_nosender(vc, m) == AllOthers(vc, m.timestamp, m.sender, 0)

\* BSS: all(...) and vector_clock[sender] == timestamp[sender] - 1
BSS_check(vc, m) ==
    LET a == AllOthers(vc, m.timestamp, m.sender, 0)
    IN  IF a = "True" THEN SenderNext(vc, m.timestamp, m.sender) ELSE a

\* SES: vector_clock[sender] == timestamp[sender] - 1
SES_check(vc, m) == SenderNext(vc, m.timestamp, m.sender)

Check(pol, vc, m) == IF pol = "BSS" THEN BSS_check(vc, m) ELSE SES_check(vc, m)

\* np.maximum(self.vector_clock, timestamp): element-wise, a length-1
\* timestamp is broadcast, any other length raises ValueError.
CanMaximum(ts) == DOMAIN ts = VecProcs \/ DOMAIN ts = {0}

\* the merge written with np.add
MaximumAdd(vc, ts) ==
    IF DOMAIN ts = VecProcs THEN [i \in VecProcs |-> vc[i] + ts[i]]
    ELSE [i \in VecProcs |-> vc[i] + ts[0]]

Maximum(vc, ts) ==
    IF DOMAIN ts = VecProcs THEN [i \in VecProcs |-> Max(vc[i], ts[i])]
    ELSE [i \in VecProcs |-> Max(vc[i], ts[0])]

\* item == message for two distinct message dicts, as list.remove evaluates
\* it: keys are compared in insertion order ("sender", then "receiver" in
\* SES, then "timestamp"); comparing two numpy arrays gives an array, whose
\* truth value raises ValueError unless it has a single element.
DictEq(pol, a, b) ==
    IF a.sender # b.sender THEN "False"
    ELSE IF pol = "SES" /\ a.receiver # b.receiver THEN "False"
    ELSE IF DOMAIN a.timestamp = {0} /\ DOMAIN b.timestamp = {0}
         THEN IF a.timestamp[0] # b.timestamp[0] THEN "False"
              ELSE IF pol = "SES" /\ a.label # b.label THEN "False"
              ELSE "True"
    ELSE "ValueError"

\* self.buffer.remove(message): the index removed, 0 for "not in list",
\* -1 when a comparison raises.  Identity is tried before ==.
RECURSIVE RemoveIndex(_, _, _, _)
RemoveIndex(pol, buf, m, j) ==
    IF j > Len(buf) THEN 0
    ELSE IF buf[j].id = m.id THEN j
    ELSE LET e == DictEq(pol, buf[j], m)
         IN  IF e = "ValueError" THEN -1
             ELSE IF e = "True" THEN j
             ELSE RemoveIndex(pol, buf, m, j + 1)

\* the removal left out: the list stays as it is
DropAt_keep(s, j) == s

DropAt(s, j) == SubSeq(s, 1, j - 1) \o SubSeq(s, j + 1, Len(s))

\* -------------------------------------- BSS / SES: deliver and check_buffer
\* A process while a call runs: [vc, buf, log, err]; err # "none" is the
\* exception that is propagating.
RECURSIVE Vec_deliver_message(_, _, _)
RECURSIVE Vec_scan(_, _, _, _)
RECURSIVE Vec_check_buffer(_, _)

\* deliver_message without the call of check_buffer()
Vec_deliver_message_nocheck(pol, s, m) ==
    IF ~CanMaximum(m.timestamp) THEN [s EXCEPT !.err = "ValueError"]
    ELSE [s EXCEPT !.vc = Maximum(s.vc, m.timestamp), !.log = Append(@, m.id)]

\* deliver_message: merge, log DELIVERED, then check_buffer()
Vec_deliver_message(pol, s, m) ==
    IF ~CanMaximum(m.timestamp) THEN [s EXCEPT !.err = "ValueError"]
    ELSE Vec_check_buffer(pol,
                  [s EXCEPT !.vc = Maximum(s.vc, m.timestamp),
                            !.log = Append(@, m.id)])

\* check_buffer: the for loop over copy = self.buffer[:], from position i
Vec_scan(pol, s, copy, i) ==
    IF i > Len(copy) THEN s
    ELSE LET c == Check(pol, s.vc, copy[i])
         IN  IF c = "IndexError" THEN [s EXCEPT !.err = "IndexError"]
             ELSE IF c = "False" THEN Vec_scan(pol, s, copy, i + 1)
             ELSE LET s1 == Vec_deliver_message(pol, s, copy[i])
                      j == RemoveIndex(pol, s1.buf, copy[i], 1)
                  IN  IF s1.err # "none" THEN s1
                      ELSE IF j <= 0 THEN [s1 EXCEPT !.err = "ValueError"]
                      ELSE Vec_scan(pol, [s1 EXCEPT !.buf = DropAt(@, j)],
                                    copy, i + 1)

\* check_buffer()
Vec_check_buffer(pol, s) == Vec_scan(pol, s, s.buf, 1)

\* receive_message(message) on process state s
Vec_receive(pol, s, m) ==
    LET c == Check(pol, s.vc, m)
    IN  IF c = "IndexError" THEN [s EXCEPT !.err = "IndexError"]
        ELSE IF c = "True" THEN Vec_deliver_message(pol, s, m)
        ELSE [s EXCEPT !.buf = Append(@, m)]

\* ------------------------------------------------------------ MatrixClock
\* is_deliverable(process, message): "True", "False", or "KeyError" when a
\* dict lookup misses (a sender or a row the dicts do not hold).
RECURSIVE OtherDiagonals(_, _, _, _)
OtherDiagonals(local, mm, sender, k) ==
    IF k > Len(PROCESS_NAMES) THEN "True"
    ELSE LET p == PROCESS_NAMES[k]
         IN  IF p = sender THEN OtherDiagonals(local, mm, sender, k + 1)
             ELSE IF p \notin DOMAIN mm THEN "KeyError"
             ELSE IF mm[p][p] > local[p][p] THEN "False"
             ELSE OtherDiagonals(local, mm, sender, k + 1)

\* is_deliverable without the test of the sender's entry
is_deliverable_nosender(local, m) ==
    IF m.sender \notin DOMAIN m.matrix \/ m.sender \notin DOMAIN local
    THEN "KeyError"
    ELSE OtherDiagonals(local, m.matrix, m.sender, 1)

is_deliverable(local, m) ==
    IF m.sender \notin DOMAIN m.matrix \/ m.sender \notin DOMAIN local
    THEN "KeyError"
    ELSE IF m.matrix[m.sender][m.sender] # local[m.sender][m.sender] + 1
    THEN "False"
    ELSE OtherDiagonals(local, m.matrix, m.sender, 1)

\* the merge of deliver_message: for p, for q:
\*     self.matrix[p][q] = max(self.matrix[p][q], message.matrix[p][q])
Mx_merge(local, mm) ==
    [p \in Names |-> [q \in Names |-> Max(local[p][q], mm[p][q])]]

\* deliver_message without the increment of the own diagonal entry
Mx_deliver_message_noinc(name, s, m) ==
    [s EXCEPT !.log = Append(@, m.msg_id), !.mx = Mx_merge(s.mx, m.matrix)]

\* deliver_message counting the delivery in the receiver's cell for the
\* sender instead of its own diagonal entry
Mx_deliver_message_row(name, s, m) ==
    [s EXCEPT !.log = Append(@, m.msg_id),
              !.mx = [Mx_merge(s.mx, m.matrix) EXCEPT ![name][m.sender] = @ + 1]]

\* deliver_message: append to delivered, merge every cell by max, then
\* increment the receiver's own diagonal entry.  (Every message that passed
\* is_deliverable holds a row for each name.)
Mx_deliver_message(name, s, m) ==
    [s EXCEPT !.log = Append(@, m.msg_id),
              !.mx = [Mx_merge(s.mx, m.matrix) EXCEPT ![name][name] = @ + 1]]

\* pending.remove(msg): Message defines no __eq__, so identity decides.
RECURSIVE IndexOf(_, _, _)
IndexOf(pend, m, j) ==
    IF j > Len(pend) THEN 0
    ELSE IF pend[j].msg_id = m.msg_id THEN j
    ELSE IndexOf(pend, m, j + 1)

\* try_deliver_pending: one pass of the for loop over copy = pending[:],
\* from position i; s.flag is delivered_now.
RECURSIVE Mx_pass(_, _, _, _)
Mx_pass(name, s, copy, i) ==
    IF i > Len(copy) THEN s
    ELSE LET c == is_deliverable(s.mx, copy[i])
             j == IndexOf(s.pend, copy[i], 1)
         IN  IF c = "KeyError" THEN [s EXCEPT !.err = "KeyError"]
             ELSE IF c = "False" THEN Mx_pass(name, s, copy, i + 1)
             ELSE IF j = 0 THEN [s EXCEPT !.err = "ValueError"]
             ELSE Mx_pass(name,
                          [Mx_deliver_message(name,
                                [s EXCEPT !.pend = DropAt(@, j)], copy[i])
                             EXCEPT !.flag = TRUE],
                          copy, i + 1)

\* try_deliver_pending: the while loop
RECURSIVE try_deliver_pending(_, _)
try_deliver_pending(name, s) ==
    LET s1 == Mx_pass(name, [s EXCEPT !.flag = FALSE], s.pend, 1)
    IN  IF s1.err # "none" \/ ~s1.flag THEN s1
        ELSE try_deliver_pending(name, s1)

\* Process.receive_message(message) on process state s
Mx_receive(name, s, m) ==
    LET c == is_deliverable(s.mx, m)
    IN  IF c = "KeyError" THEN [s EXCEPT !.err = "KeyError"]
        ELSE IF c = "True"
             THEN try_deliver_pending(name, Mx_deliver_message(name, s, m))
        ELSE [s EXCEPT !.pend = Append(@, m)]

\* ------------------------------------------------------------------ state
Init ==
    /\ policy \in {"BSS", "SES", "Matrix"}
    /\ vector_clock = [p \in VecProcs |-> zeros]
    /\ buffer = [p \in VecProcs |-> <<>>]
    /\ matrix = [p \in Names |-> initial_matrix]
    /\ pending = [p \in Names |-> <<>>]
    /\ delivered = [p \in Procs |-> <<>>]
    /\ msgs = <<>>
    /\ handed = <<>>
    /\ nforged = 0
    /\ last = [op |-> "init", proc |-> 0, msg |-> 0, res |-> "none", n |-> 0]

\* Number of repeated hand-overs so far.
RECURSIVE Dups(_, _)
Dups(h, k) ==
    IF k > Len(h) THEN 0
    ELSE (IF h[k] > 1 THEN h[k] - 1 ELSE 0) + Dups(h, k + 1)

\* The driver may hand msgs[i] to receive_message (once more).
MayHand(i) == handed[i] = 0 \/ Dups(handed, 1) < MaxDup

\* What a call of receive_message did: the exception it raised, else
\* Delivered when it delivered at least one message, else Buffered.
Outcome(err, before, after) ==
    IF err # "none" THEN err
    ELSE IF Len(after) > Len(before) THEN "Delivered" ELSE "Buffered"

\* ----------------------------------------------------- BSS / SES: actions
\* The state of process r as a call of one of its methods starts.
VecState(r) ==
    [vc |-> vector_clock[r], buf |-> buffer[r], log |-> delivered[r],
     err |-> "none"]

\* The object a send makes for the snapshot of its message.
SnapshotObj(p) ==
    clock_copy(ClockObj(p), [kind |-> "snapshot", owner |-> p, gen |-> Len(msgs) + 1])

\* The message dict built by send_message; id, receiver (BSS), obj and past
\* are bookkeeping: the identity of the dict, the addressee, the identity of
\* the timestamp array, and the sends before it.
VecMessage(pol, p, receiver, ts) ==
    IF pol = "SES"
    THEN [id |-> Len(msgs) + 1, sender |-> p, receiver |-> receiver,
          timestamp |-> ts, label |-> Len(msgs) + 1, obj |-> SnapshotObj(p),
          past |-> PastOf(p, msgs, delivered[p])]
    ELSE [id |-> Len(msgs) + 1, sender |-> p, receiver |-> receiver,
          timestamp |-> ts, obj |-> SnapshotObj(p),
          past |-> PastOf(p, msgs, delivered[p])]

\* send_message(receiver, processes): increment_clock(), copy the clock into
\* the message, then processes[receiver].receive_message(message).
\* processes[receiver] is the receiving process itself (direct: its
\* receive_message runs inside the send) or a stand-in that keeps the
\* message in flight until the driver hands it over.
Vec_send_message(pol, p, receiver, direct) ==
    /\ policy = pol
    /\ Len(msgs) < MaxSends
    /\ LET ts == increment_clock(vector_clock[p], p)
           m == VecMessage(pol, p, receiver, ts)
           vc1 == [vector_clock EXCEPT ![p] = ts]
           buf1 == [x \in VecProcs |-> WriteThrough(buffer[x], ClockObj(p), ts)]
           s0 == [VecState(receiver) EXCEPT !.vc = vc1[receiver],
                                            !.buf = buf1[receiver]]
           s1 == Vec_receive(pol, s0, m)
       IN  /\ msgs' = Append(WriteThrough(msgs, ClockObj(p), ts), m)
           /\ IF direct
              THEN /\ vector_clock' = [vc1 EXCEPT ![receiver] = s1.vc]
                   /\ buffer' = [buf1 EXCEPT ![receiver] = s1.buf]
                   /\ delivered' = [delivered EXCEPT ![receiver] = s1.log]
                   /\ handed' = Append(handed, 1)
                   /\ last' = [op |-> "send_message", proc |-> p,
                               msg |-> m.id,
                               res |-> Outcome(s1.err, s0.log, s1.log),
                               n |-> Len(s1.log) - Len(s0.log)]
              ELSE /\ vector_clock' = vc1
                   /\ handed' = Append(handed, 0)
                   /\ last' = [op |-> "send_message", proc |-> p,
                               msg |-> m.id, res |-> "InFlight", n |-> 0]
                   /\ buffer' = buf1
                   /\ UNCHANGED delivered
    /\ UNCHANGED <<policy, matrix, pending, nforged>>

\* receive_message(message) called by the driver on process r
Vec_receive_call(pol, r, m) ==
    LET s0 == VecState(r)
        s1 == Vec_receive(pol, s0, m)
    IN  /\ vector_clock' = [vector_clock EXCEPT ![r] = s1.vc]
        /\ buffer' = [buffer EXCEPT ![r] = s1.buf]
        /\ delivered' = [delivered EXCEPT ![r] = s1.log]
        /\ last' = [op |-> "receive_message", proc |-> r, msg |-> m.id,
                    res |-> Outcome(s1.err, s0.log, s1.log),
                    n |-> Len(s1.log) - Len(s0.log)]

Vec_receive_message(pol, r, i) ==
    /\ policy = pol
    /\ i \in 1 .. Len(msgs)
    /\ msgs[i].receiver = r
    /\ MayHand(i)
    /\ Vec_receive_call(pol, r, msgs[i])
    /\ handed' = [handed EXCEPT ![i] = @ + 1]
    /\ UNCHANGED <<policy, matrix, pending, msgs, nforged>>

BSS_send_message ==
    \E p \in VecProcs, receiver \in VecProcs, direct \in BOOLEAN :
        Vec_send_message("BSS", p, receiver, direct)

BSS_receive_message ==
    \E r \in VecProcs, i \in 1 .. MaxSends : Vec_receive_message("BSS", r, i)

SES_send_message ==
    \E p \in VecProcs, receiver \in VecProcs, direct \in BOOLEAN :
        Vec_send_message("SES", p, receiver, direct)

SES_receive_message ==
    \E r \in VecProcs, i \in 1 .. MaxSends : Vec_receive_message("SES", r, i)

\* -------------------------------------------------- MatrixClock: actions
MxState(name) ==
    [mx |-> matrix[name], pend |-> pending[name], log |-> delivered[name],
     err |-> "none", flag |-> FALSE]

\* Process.send_message(receiver, message_id): increment the own diagonal
\* entry, deep-copy the matrix into a new Message and return it.
Mx_send_message(p, receiver) ==
    /\ policy = "Matrix"
    /\ LET mx1 == [matrix[p] EXCEPT ![p][p] = @ + 1]
           m == [msg_id |-> Len(msgs) + 1, sender |-> p,
                 receiver |-> receiver, matrix |-> mx1,
                 obj |-> SnapshotObj(p),
                 past |-> PastOf(p, msgs, delivered[p])]
       IN  /\ matrix' = [matrix EXCEPT ![p] = mx1]
           /\ msgs' = Append(WriteThrough(msgs, ClockObj(p), mx1), m)
           /\ pending' = [x \in Names |->
                             WriteThrough(pending[x], ClockObj(p), mx1)]
           /\ handed' = Append(handed, 0)
           /\ last' = [op |-> "send_message", proc |-> p, msg |-> m.msg_id,
                       res |-> "InFlight", n |-> 0]
    /\ UNCHANGED <<policy, vector_clock, buffer, delivered, nforged>>

\* Process.receive_message(message) called by the driver on process r
Mx_receive_call(r, m) ==
    LET s0 == MxState(r)
        s1 == Mx_receive(r, s0, m)
    IN  /\ matrix' = [matrix EXCEPT ![r] = s1.mx]
        /\ pending' = [x \in Names |->
                          WriteThrough(IF x = r THEN s1.pend ELSE pending[x],
                                       ClockObj(r), s1.mx)]
        /\ msgs' = WriteThrough(msgs, ClockObj(r), s1.mx)
        /\ delivered' = [delivered EXCEPT ![r] = s1.log]
        /\ last' = [op |-> "receive_message", proc |-> r, msg |-> m.msg_id,
                    res |-> Outcome(s1.err, s0.log, s1.log),
                    n |-> Len(s1.log) - Len(s0.log)]

Mx_receive_message(r, i) ==
    /\ policy = "Matrix"
    /\ i \in 1 .. Len(msgs)
    /\ msgs[i].receiver = r
    /\ MayHand(i)
    /\ Mx_receive_call(r, msgs[i])
    /\ handed' = [handed EXCEPT ![i] = @ + 1]
    /\ UNCHANGED <<policy, vector_clock, buffer, nforged>>

Matrix_send_message ==
    /\ Len(msgs) < MaxSends
    /\ \E p \in Names, receiver \in Names : Mx_send_message(p, receiver)

Matrix_receive_message ==
    \E r \in Names, i \in 1 .. MaxSends : Mx_receive_message(r, i)

\* ---------------------------------------------------------- specification
Next ==
    \/ BSS_send_message
    \/ BSS_receive_message
    \/ SES_send_message
    \/ SES_receive_message
    \/ Matrix_send_message
    \/ Matrix_receive_message

Spec == Init /\ [][Next]_vars

\* ------------------------------------------ messages not built by a send
\* Hand-built messages a driver may pass to receive_message: a sender id
\* outside the group, or a clock of the wrong dimension.
ones == [i \in VecProcs |-> 1]
short == [i \in {0} |-> 1]

ForgedVec(pol, r) ==
    LET shapes == {[sender |-> num_processes, timestamp |-> zeros],
                   [sender |-> num_processes, timestamp |-> ones],
                   [sender |-> num_processes, timestamp |-> short]}
                  \cup {[sender |-> q, timestamp |-> short] : q \in VecProcs}
        obj == [kind |-> "snapshot", owner |-> num_processes,
                gen |-> -(nforged + 1)]
    IN  {IF pol = "SES"
         THEN [id |-> -(nforged + 1), sender |-> f.sender, receiver |-> r,
               timestamp |-> f.timestamp, label |-> -(nforged + 1),
               obj |-> obj, past |-> {}]
         ELSE [id |-> -(nforged + 1), sender |-> f.sender, receiver |-> r,
               timestamp |-> f.timestamp, obj |-> obj, past |-> {}]
          : f \in shapes}

unit3 == [p \in Names |-> [q \in Names |-> IF p = q THEN 1 ELSE 0]]
unit2 == [p \in {"P1", "P2"} |-> [q \in {"P1", "P2"} |-> IF p = q THEN 1 ELSE 0]]

ForgedMx(r) ==
    LET shapes == {[sender |-> "P4", matrix |-> unit3]}
                  \cup {[sender |-> q, matrix |-> unit2] : q \in Names}
    IN  {[msg_id |-> -(nforged + 1), sender |-> f.sender, receiver |-> r,
          matrix |-> f.matrix,
          obj |-> [kind |-> "snapshot", owner |-> "P4",
                   gen |-> -(nforged + 1)],
          past |-> {}] : f \in shapes}

WellFormed(m) ==
    IF policy = "Matrix"
    THEN m.sender \in Names /\ DOMAIN m.matrix = Names
    ELSE m.sender \in VecProcs /\ DOMAIN m.timestamp = VecProcs

BSS_receive_forged ==
    /\ policy = "BSS"
    /\ nforged < MaxForged
    /\ \E r \in VecProcs : \E m \in ForgedVec("BSS", r) :
           Vec_receive_call("BSS", r, m)
    /\ nforged' = nforged + 1
    /\ UNCHANGED <<policy, matrix, pending, msgs, handed>>

SES_receive_forged ==
    /\ policy = "SES"
    /\ nforged < MaxForged
    /\ \E r \in VecProcs : \E m \in ForgedVec("SES", r) :
           Vec_receive_call("SES", r, m)
    /\ nforged' = nforged + 1
    /\ UNCHANGED <<policy, matrix, pending, msgs, handed>>

Matrix_receive_forged ==
    /\ policy = "Matrix"
    /\ nforged < MaxForged
    /\ \E r \in Names : \E m \in ForgedMx(r) : Mx_receive_call(r, m)
    /\ nforged' = nforged + 1
    /\ UNCHANGED <<policy, vector_clock, buffer, handed>>

NextForged ==
    \/ Len(msgs) < MaxSendsForged /\ BSS_send_message
    \/ Len(msgs) < MaxSendsForged /\ SES_send_message
    \/ Len(msgs) < MaxSendsForged /\ Matrix_send_message
    \/ BSS_receive_message
    \/ SES_receive_message
    \/ Matrix_receive_message
    \/ BSS_receive_forged
    \/ SES_receive_forged
    \/ Matrix_receive_forged

\* Runs in which the driver may also hand over hand-built messages.
SpecForged == Init /\ [][NextForged]_vars

\* ------------------------------------- one receive on arbitrary operands
\* Largest clock entry of the operands drawn.
MaxEntry == 2

\* The vector clocks and the matrix clocks drawn: every vector over
\* 0 .. MaxEntry; every diagonal over 0 .. MaxEntry, with the cell
\* [P1][P2] zero or MaxEntry.
Clocks == [VecProcs -> 0 .. MaxEntry]
Matrices ==
    {[p \in Names |-> [q \in Names |->
         IF p = q THEN d[p]
         ELSE IF p = "P1" /\ q = "P2" THEN o ELSE 0]] :
       d \in [Names -> 0 .. MaxEntry], o \in {0, MaxEntry}}

\* Process 0 (P1) holds any clock and is about to receive any message.
InitAny ==
    /\ policy \in {"BSS", "SES", "Matrix"}
    /\ buffer = [p \in VecProcs |-> <<>>]
    /\ pending = [p \in Names |-> <<>>]
    /\ delivered = [p \in Procs |-> <<>>]
    /\ handed = <<0>>
    /\ nforged = 0
    /\ last = [op |-> "init", proc |-> 0, msg |-> 0, res |-> "none", n |-> 0]
    /\ IF policy = "Matrix"
       THEN /\ vector_clock = [p \in VecProcs |-> zeros]
            /\ \E A \in Matrices :
                   matrix = [p \in Names |-> IF p = "P1" THEN A
                                             ELSE initial_matrix]
            /\ \E B \in Matrices, s \in Names :
                   msgs = <<[msg_id |-> 1, sender |-> s, receiver |-> "P1",
                             matrix |-> B,
                             obj |-> [kind |-> "snapshot", owner |-> s,
                                      gen |-> 1],
                             past |-> {}]>>
       ELSE /\ matrix = [p \in Names |-> initial_matrix]
            /\ \E A \in Clocks :
                   vector_clock = [p \in VecProcs |-> IF p = 0 THEN A
                                                      ELSE zeros]
            /\ \E B \in Clocks, s \in VecProcs :
                   msgs = <<IF policy = "SES"
                            THEN [id |-> 1, sender |-> s, receiver |-> 0,
                                  timestamp |-> B, label |-> 1,
                                  obj |-> [kind |-> "snapshot", owner |-> s,
                                           gen |-> 1],
                                  past |-> {}]
                            ELSE [id |-> 1, sender |-> s, receiver |-> 0,
                                  timestamp |-> B,
                                  obj |-> [kind |-> "snapshot", owner |-> s,
                                           gen |-> 1],
                                  past |-> {}]>>

NextAny ==
    \/ BSS_receive_message
    \/ SES_receive_message
    \/ Matrix_receive_message

\* A process with any clock receives any message.
SpecAny == InitAny /\ [][NextAny]_vars

\* ---------------------------------------------------------- run_simulation
\* The calls of run_simulation, in program order: two sends, two receives,
\* then three times a send and the receive of the message just sent.
Simulation ==
    <<"send", "send", "receive", "receive", "send", "receive",
      "send", "receive", "send", "receive">>

\* How many of these calls have run.
SimDone == Len(msgs) + Cardinality({i \in 1 .. Len(handed) : handed[i] >= 1})

\* The next call is a send: who sends to whom is left open (run_simulation
\* has P1 send M1 to P2 and M2 to P3, P2 send M3 to P3, P3 send M4 to P1 and
\* P1 send M5 to P2).
Sim_send_message ==
    /\ SimDone < Len(Simulation)
    /\ Simulation[SimDone + 1] = "send"
    /\ \E p \in Names, receiver \in Names : Mx_send_message(p, receiver)

\* The next call is a receive: the addressee of the oldest message not yet
\* received receives it.
Sim_receive_message ==
    /\ SimDone < Len(Simulation)
    /\ Simulation[SimDone + 1] = "receive"
    /\ \E i \in 1 .. Len(msgs) :
           /\ handed[i] = 0
           /\ \A j \in 1 .. (i - 1) : handed[j] >= 1
           /\ Mx_receive_message(msgs[i].receiver, i)

InitSim == Init /\ policy = "Matrix"

NextSim ==
    \/ Sim_send_message
    \/ Sim_receive_message

\* run_simulation, for any choice of senders and receivers.
SpecSim == InitSim /\ [][NextSim]_vars

\* ================================================================ claims
Range(q) == {q[k] : k \in 1 .. Len(q)}

\* The process whose receive_message ran in the last call.
LastReceiver ==
    IF last.op = "receive_message" THEN last.proc ELSE msgs[last.msg].receiver

\* The deliverability predicate of the running program, for process r.
DeliverableAt(r, m) ==
    IF policy = "Matrix" THEN is_deliverable(matrix[r], m) = "True"
    ELSE Check(policy, vector_clock[r], m) = "True"

\* The pending buffer of process r.
BufferOf(r) == IF policy = "Matrix" THEN pending[r] ELSE buffer[r]

\* C1 (cascade completeness): when a call of receive_message that delivered
\* at least one message has returned, no message left in the receiver's
\* buffer satisfies the program's deliverability predicate against the
\* receiver's clock.
C1_CascadeComplete ==
    last.res = "Delivered" =>
        \A k \in 1 .. Len(BufferOf(LastReceiver)) :
            ~DeliverableAt(LastReceiver, BufferOf(LastReceiver)[k])

\* C1 happens: a receive delivered the arriving message and, by cascade, a
\* buffered one, and returned with a message still buffered.
C1_Witness ==
    /\ last.res = "Delivered"
    /\ last.n >= 2
    /\ Len(BufferOf(LastReceiver)) >= 1

\* Position of id i in the delivered log q (0 when it is not there).
RECURSIVE PosIn(_, _, _)
PosIn(q, i, k) ==
    IF k > Len(q) THEN 0 ELSE IF q[k] = i THEN k ELSE PosIn(q, i, k + 1)

\* C2 (causal order, BSS): when process r delivers m, every message
\* addressed to r whose send happened-before the send of m was delivered at
\* r earlier.
C2_CausalOrderBSS ==
    policy = "BSS" =>
        \A r \in VecProcs : \A k \in 1 .. Len(delivered[r]) :
            \A i \in msgs[delivered[r][k]].past :
                msgs[i].receiver = r =>
                    /\ PosIn(delivered[r], i, 1) > 0
                    /\ PosIn(delivered[r], i, 1) < k

\* C2 happens: r received the second message of a sender first, buffered
\* it, and delivered it by cascade right after the first one arrived.
C2_Witness ==
    /\ policy = "BSS"
    /\ last.n = 2
    /\ \E r \in VecProcs :
           /\ Len(delivered[r]) = 2
           /\ delivered[r][1] \in msgs[delivered[r][2]].past
           /\ msgs[delivered[r][1]].receiver = r
           /\ last.msg = delivered[r][1]

\* The messages of sender s in the delivered log of r, in delivery order.
RECURSIVE FromSender(_, _)
FromSender(q, s) ==
    IF q = <<>> THEN <<>>
    ELSE (IF msgs[Head(q)].sender = s THEN <<Head(q)>> ELSE <<>>)
             \o FromSender(Tail(q), s)

\* C3 (exactly next in sequence, BSS): at every process r and for every
\* other sender s, r's clock entry for s is the number of messages of s that
\* r delivered, and the k-th of them carries sender entry k.
C3_NextInSequenceBSS ==
    policy = "BSS" =>
        \A r \in VecProcs : \A s \in VecProcs \ {r} :
            LET q == FromSender(delivered[r], s)
            IN  /\ vector_clock[r][s] = Len(q)
                /\ \A k \in 1 .. Len(q) : msgs[q[k]].timestamp[s] = k

\* C3 happens: some process delivered three messages of one sender, one of
\* them out of a buffer that still holds a message.
C3_Witness ==
    /\ policy = "BSS"
    /\ \E r \in VecProcs : \E s \in VecProcs \ {r} :
           /\ vector_clock[r][s] = 3
           /\ Len(buffer[r]) >= 1

\* The sends of the three-process scenario: m1 = msgs[1] from process 0 to
\* process 2, then m2 = msgs[2] from process 0 to process 1.
C4_FirstSends ==
    /\ policy = "BSS"
    /\ Len(msgs) >= 2
    /\ msgs[1].sender = 0 /\ msgs[1].receiver = 2
    /\ msgs[2].sender = 0 /\ msgs[2].receiver = 1

\* ... and m3 = msgs[3] from process 1 to process 2, sent after process 1
\* received m2.
C4_ThirdSend ==
    /\ C4_FirstSends
    /\ Len(msgs) = 3
    /\ msgs[3].sender = 1 /\ msgs[3].receiver = 2

\* The vector clock <<a, b, c>> of a three-process group.
Vec3(a, b, c) == [i \in VecProcs |-> IF i = 0 THEN a ELSE IF i = 1 THEN b ELSE c]

\* C4 as claimed: m1 carries <<1,0,0>>; process 1 delivers m2 on receipt and
\* its clock becomes <<1,1,0>>; m3 carries <<1,2,0>>; process 2 buffers m3
\* until m1 arrives, then delivers m1 and, by the drain, m3.
C4_AsClaimed ==
    /\ C4_FirstSends =>
           /\ msgs[1].timestamp = Vec3(1, 0, 0)
           /\ handed[2] >= 1 => 2 \in Range(delivered[1])
           /\ (handed[2] >= 1 /\ Len(msgs) = 2) =>
                  vector_clock[1] = Vec3(1, 1, 0)
    /\ (C4_ThirdSend /\ handed[2] >= 1) =>
           /\ msgs[3].timestamp = Vec3(1, 2, 0)
           /\ (handed[3] >= 1 /\ handed[1] = 0) =>
                  /\ delivered[2] = <<>>
                  /\ 3 \in {buffer[2][k].id : k \in 1 .. Len(buffer[2])}
           /\ (handed[3] >= 1 /\ handed[1] >= 1) => delivered[2] = <<1, 3>>

\* C4 as the program runs it: m1 carries <<1,0,0>> and m2 carries <<2,0,0>>;
\* process 1 buffers m2 on receipt and its clock stays at zero; m3, sent by
\* process 1 after that, carries <<0,1,0>>; process 2 delivers m3 at once
\* when it arrives before m1, then delivers m1 on arrival, with no drain,
\* and its clock ends as <<1,1,0>>.
C4_Scenario ==
    /\ C4_FirstSends =>
           /\ msgs[1].timestamp = Vec3(1, 0, 0)
           /\ msgs[2].timestamp = Vec3(2, 0, 0)
           /\ handed[2] >= 1 =>
                  /\ 2 \notin Range(delivered[1])
                  /\ 2 \in {buffer[1][k].id : k \in 1 .. Len(buffer[1])}
                  /\ vector_clock[1][0] = 0
    /\ C4_ThirdSend =>
           /\ msgs[3].timestamp = Vec3(0, 1, 0)
           /\ handed[3] >= 1 => 3 \in Range(delivered[2])
           /\ handed[1] >= 1 => 1 \in Range(delivered[2])
           /\ (last.op = "receive_message" /\ last.proc = 2) =>
                  last.n <= 1
           /\ (handed[3] >= 1 /\ handed[1] >= 1) =>
                  vector_clock[2] = Vec3(1, 1, 0)

\* C4 happens: the scenario was played to its end, m3 reaching process 2
\* before m1.
C4_Witness ==
    /\ C4_ThirdSend
    /\ handed[2] >= 1
    /\ delivered[2] = <<3, 1>>

\* A step in which the driver called receive_message of a process.
ReceiveStep == handed' # handed /\ last'.op = "receive_message"

\* C5 (matrix clocks): a call of receive_message that delivers k messages
\* (the arriving one and cascaded ones) raises the receiver's own diagonal
\* entry by exactly k, one per delivery; and the first message ever sent,
\* received by another process, is delivered on receipt.
C5_Step ==
    (policy = "Matrix" /\ ReceiveStep) =>
        LET r == last'.proc
            k == Len(delivered'[r]) - Len(delivered[r])
        IN  /\ last'.n = k
            /\ matrix'[r][r][r] = matrix[r][r][r] + k
            /\ (last'.msg = 1 /\ handed[1] = 0 /\ msgs[1].sender # r) =>
                   /\ last'.res = "Delivered"
                   /\ 1 \in Range(delivered'[r])

\* C5: every step of a Matrix run raises the receiver's own diagonal entry
\* by exactly the number of messages the call delivered.
C5_DeliveryIncrementsDiagonal == [][C5_Step]_vars

\* C5 happens: one call delivered two messages at a process whose own
\* diagonal entry had already been raised before.
C5_Witness ==
    /\ policy = "Matrix"
    /\ last.op = "receive_message"
    /\ last.n = 2
    /\ matrix[last.proc][last.proc][last.proc] >= 3

\* Process p's own clock entry.
Own(p) == IF policy = "Matrix" THEN matrix[p][p][p] ELSE vector_clock[p][p]

\* C6 (send monotonicity): a send by p raises p's own entry by exactly 1,
\* leaves every other entry of p's clock alone, and the message carries p's
\* clock as it is right after the increment; no step lowers an own entry.
C6_Step ==
    /\ Len(msgs') = Len(msgs) + 1 =>
           LET m == msgs'[Len(msgs')]
               p == m.sender
           IN  IF policy = "Matrix"
               THEN /\ matrix'[p] = [matrix[p] EXCEPT ![p][p] = @ + 1]
                    /\ m.matrix = matrix'[p]
               ELSE /\ vector_clock'[p] = [vector_clock[p] EXCEPT ![p] = @ + 1]
                    /\ m.timestamp = vector_clock'[p]
    /\ \A p \in Procs :
           IF policy = "Matrix" THEN matrix'[p][p][p] >= matrix[p][p][p]
           ELSE vector_clock'[p][p] >= vector_clock[p][p]

\* C6: every step obeys send monotonicity: a send adds exactly 1 to the
\* sender's own entry only, and no own entry ever decreases.
C6_SendMonotone == [][C6_Step]_vars

\* C6 happens: a process that delivered a message has just sent its second
\* message.
C6_Witness ==
    /\ last.op = "send_message"
    /\ Own(last.proc) >= 2
    /\ Len(delivered[last.proc]) >= 1

\* What the clock of p holds for q, and what a message snapshot holds for q.
Entry(p, q) == IF policy = "Matrix" THEN matrix[p][q][q] ELSE vector_clock[p][q]
SnapEntry(m, q) == IF policy = "Matrix" THEN m.matrix[q][q] ELSE m.timestamp[q]

\* C7 (knowledge bound): no clock and no message snapshot holds for q more
\* than q's own entry for itself; so in BSS and SES a delivery leaves the
\* receiver's own entry as it was.
C7_Bound ==
    /\ \A p \in Procs, q \in Procs : Entry(p, q) <= Own(q)
    /\ \A i \in 1 .. Len(msgs) : \A q \in Procs : SnapEntry(msgs[i], q) <= Own(q)

C7_Step ==
    (policy # "Matrix" /\ handed' # handed) =>
        \A r \in VecProcs :
            (Len(delivered'[r]) > Len(delivered[r])
                 /\ ~(Len(msgs') > Len(msgs) /\ last'.proc = r)) =>
                vector_clock'[r][r] = vector_clock[r][r]

\* C7: the knowledge bound holds in every state, and no BSS/SES delivery
\* changes the receiver's own entry.
C7_KnowledgeBound == [](C7_Bound) /\ [][C7_Step]_vars

\* C7 happens: a process delivered a message whose snapshot holds a
\* positive entry for the receiver itself.
C7_Witness ==
    /\ policy # "Matrix"
    /\ \E r \in VecProcs : \E k \in 1 .. Len(delivered[r]) :
           msgs[delivered[r][k]].timestamp[r] >= 1

\* C8 (no double delivery): no id occurs twice in a delivered log, also when
\* a message is handed to receive_message more than once.
C8_NoDoubleDelivery ==
    \A p \in Procs : \A j \in 1 .. Len(delivered[p]) :
        \A k \in 1 .. Len(delivered[p]) :
            j # k => delivered[p][j] # delivered[p][k]

\* C8 happens: a message handed over twice is in the delivered log.
C8_Witness ==
    \E i \in 1 .. Len(msgs) :
        /\ handed[i] >= 2
        /\ i \in Range(delivered[msgs[i].receiver])

Exceptions == {"IndexError", "KeyError", "ValueError"}

\* C9 (duplicate receive): handing receive_message a message its process
\* already delivered is rejected or changes nothing of that process.
C9_Step ==
    (ReceiveStep /\ last'.msg \in Range(delivered[last'.proc])) =>
        \/ last'.res \in Exceptions
        \/ /\ vector_clock' = vector_clock
           /\ buffer' = buffer
           /\ matrix' = matrix
           /\ pending' = pending
           /\ delivered' = delivered

\* C9: every hand-over of an already delivered message is rejected or a
\* no-op.
C9_DuplicateRejectedOrNoop == [][C9_Step]_vars

\* C10 (malformed messages): a message with an unknown sender or a clock of
\* the wrong dimension is rejected by receive_message; none is ever
\* buffered or delivered.
C10_MalformedRejected ==
    /\ last.msg < 0 => last.res \in Exceptions
    /\ \A r \in Procs :
           /\ \A k \in 1 .. Len(BufferOf(r)) : WellFormed(BufferOf(r)[k])
           /\ \A k \in 1 .. Len(delivered[r]) : delivered[r][k] > 0

\* C11 as claimed (SES lets a process deliver a message ahead of a causally
\* earlier one addressed to it), on the three-process scenario the remark
\* is made about: process 0 sends m1 to process 2 and m2 to process 1;
\* process 1 receives m2 and then sends m3 straight to process 2, which has
\* not received m1.  Process 2 delivers m3 although the send of m1 happened
\* before the send of m3 and m1 is not delivered at process 2.
C11_AsClaimedStep ==
    ( /\ policy = "SES"
      /\ Len(msgs) = 2
      /\ msgs[1].sender = 0 /\ msgs[1].receiver = 2
      /\ msgs[2].sender = 0 /\ msgs[2].receiver = 1
      /\ handed[1] = 0 /\ handed[2] >= 1
      /\ Len(msgs') = 3
      /\ msgs'[3].sender = 1 /\ msgs'[3].receiver = 2
      /\ handed'[3] = 1 ) =>
        /\ 3 \in Range(delivered'[2])
        /\ 1 \notin Range(delivered'[2])
        /\ 1 \in msgs'[3].past

Snapshot(m) == IF policy = "Matrix" THEN m.matrix ELSE m.timestamp
IdOf(m) == IF policy = "Matrix" THEN m.msg_id ELSE m.id

\* C12, in every step: no message built by an earlier send carries a
\* different snapshot after the step, whatever the step is (a send, a
\* delivery with its merge, a cascade).
C12_Step ==
    \A i \in 1 .. Len(msgs) : Snapshot(msgs'[i]) = Snapshot(msgs[i])

\* C12, in every state: a message held in a pending buffer carries the
\* snapshot it was sent with, and the sender's entry of a snapshot is still
\* the count of the sender's sends up to that message (MatrixClock: at
\* least that, deliveries at the sender count too).
C12_Held ==
    /\ \A r \in Procs : \A k \in 1 .. Len(BufferOf(r)) :
           LET b == BufferOf(r)[k]
           IN  IdOf(b) > 0 => Snapshot(b) = Snapshot(msgs[IdOf(b)])
    /\ \A i \in 1 .. Len(msgs) :
           LET sends == Cardinality({j \in 1 .. i :
                                        msgs[j].sender = msgs[i].sender})
               own == SnapEntry(msgs[i], msgs[i].sender)
           IN  IF policy = "Matrix" THEN own >= sends ELSE own = sends

\* C12 (snapshot immutability): the snapshot stored in a message at send
\* time never changes afterwards, through no later send, delivery or merge
\* of the sender or of a receiver; delivered and buffered messages keep the
\* snapshot they were sent with.
C12_SnapshotImmutable == [](C12_Held) /\ [][C12_Step]_vars

\* C12 happens: a message sits in the buffer of a process that has
\* delivered another message, and its sender has sent again since.
C12_Witness ==
    \E i \in 1 .. Len(msgs) :
        LET r == msgs[i].receiver
        IN  /\ \E k \in 1 .. Len(BufferOf(r)) : IdOf(BufferOf(r)[k]) = i
            /\ Len(delivered[r]) >= 1
            /\ Own(msgs[i].sender) > SnapEntry(msgs[i], msgs[i].sender)

\* A step in which receive_message of a process ran: called by the driver,
\* or by send_message on the receiver itself.
ReceiveRan == handed' # handed /\ last'.res # "InFlight"

\* C13, in every call of receive_message: with b messages buffered when the
\* call starts, the call delivers n <= b + 1 messages; and every delivery
\* after that of the arriving message consumes one buffered message, so a
\* call that returns leaves b + 1 - n messages buffered (b + 1 when the
\* arriving message was buffered).
C13_Step ==
    ReceiveRan =>
        LET r == IF last'.op = "receive_message" THEN last'.proc
                 ELSE msgs'[last'.msg].receiver
            b == Len(BufferOf(r))
            b1 == IF policy = "Matrix" THEN Len(pending'[r])
                  ELSE Len(buffer'[r])
            n == Len(delivered'[r]) - Len(delivered[r])
        IN  /\ last'.n = n
            /\ n <= b + 1
            /\ last'.res \notin Exceptions => b1 = b + 1 - n

\* C13 (the drain terminates): a call of receive_message, with its cascade
\* (recursive in BSS/SES, a loop in MatrixClock), ends having delivered at
\* most (number of buffered messages + 1) messages, each cascaded delivery
\* shrinking the buffer by one.
C13_DrainTerminates == [][C13_Step]_vars

\* C13 happens: one call delivered the arriving message and, by cascade,
\* two buffered ones, and emptied the buffer.
C13_Witness ==
    /\ last.n = 3
    /\ last.res = "Delivered"
    /\ BufferOf(LastReceiver) = <<>>

\* C14, on every clock and message: a message that passes the BSS check
\* passes the SES check.
C14_Implies ==
    policy # "Matrix" =>
        \A r \in VecProcs : \A i \in 1 .. Len(msgs) :
            BSS_check(vector_clock[r], msgs[i]) = "True" =>
                SES_check(vector_clock[r], msgs[i]) = "True"

\* C14, in a run: a message BSS delivers on receipt passes the SES check
\* against the clock the receiver had.
C14_Step ==
    (policy = "BSS" /\ ReceiveStep
         /\ Len(delivered'[last'.proc]) > Len(delivered[last'.proc])) =>
        SES_check(vector_clock[last'.proc], msgs[last'.msg]) = "True"

\* C14 (BSS is stronger than SES): for every local clock and every message,
\* if the BSS predicate holds then the SES predicate holds.  (That the
\* converse fails is C14_Witness.)
C14_FullStrongerThanSingle == [](C14_Implies) /\ [][C14_Step]_vars

\* C14 happens, and the converse fails: BSS has buffered a message that
\* passes the SES check against the same clock.
C14_Witness ==
    /\ policy = "BSS"
    /\ handed = <<1>>
    /\ Len(buffer[0]) = 1
    /\ BSS_check(vector_clock[0], buffer[0][1]) = "False"
    /\ SES_check(vector_clock[0], buffer[0][1]) = "True"

\* C15, on every clock A of a process and snapshot B of a message:
\* merge(merge(A,B),B) = merge(A,B) and merge(A,B) = merge(B,A), for the
\* vector merge and for the matrix merge.
C15_Laws ==
    IF policy = "Matrix"
    THEN \A r \in Names : \A i \in 1 .. Len(msgs) :
             LET A == matrix[r]
                 B == msgs[i].matrix
             IN  /\ Mx_merge(Mx_merge(A, B), B) = Mx_merge(A, B)
                 /\ Mx_merge(A, B) = Mx_merge(B, A)
    ELSE \A r \in VecProcs : \A i \in 1 .. Len(msgs) :
             LET A == vector_clock[r]
                 B == msgs[i].timestamp
             IN  /\ Maximum(Maximum(A, B), B) = Maximum(A, B)
                 /\ Maximum(A, B) = Maximum(B, A)

\* C15, in a run: merging the snapshot of a delivered message into the
\* receiver's clock once more changes nothing.
C15_Again ==
    \A r \in Procs : \A k \in 1 .. Len(delivered[r]) :
        IF policy = "Matrix"
        THEN Mx_merge(matrix[r], msgs[delivered[r][k]].matrix) = matrix[r]
        ELSE Maximum(vector_clock[r], msgs[delivered[r][k]].timestamp)
                 = vector_clock[r]

\* C15 (merge laws): the merge applied on delivery, the component-wise
\* maximum, is idempotent and commutative.
C15_MergeIdempotentCommutative == C15_Laws /\ C15_Again

\* C15 happens: a process delivered a message and its clock is now above
\* the snapshot in one entry and was raised to the snapshot in another.
C15_Witness ==
    /\ policy = "SES"
    /\ delivered[0] = <<1>>
    /\ \E i \in VecProcs : vector_clock[0][i] > msgs[1].timestamp[i]
    /\ \E i \in VecProcs \ {0, msgs[1].sender} :
           /\ msgs[1].timestamp[i] = MaxEntry
           /\ vector_clock[0][i] = MaxEntry

\* How many times id i occurs in a list of ids.
Occurrences(ids, i) == Cardinality({k \in 1 .. Len(ids) : ids[k] = i})

\* The ids of the messages in the pending buffer of r, in buffer order.
BufferIds(r) == [k \in 1 .. Len(BufferOf(r)) |-> IdOf(BufferOf(r)[k])]

\* C16, in every state of a run that hands each message over at most once:
\* a message its addressee has received is once in the delivered log and
\* not buffered, or once in the buffer and not delivered.
C16_Places ==
    Dups(handed, 1) = 0 =>
        \A i \in 1 .. Len(msgs) :
            handed[i] = 1 =>
                Occurrences(delivered[msgs[i].receiver], i)
                    + Occurrences(BufferIds(msgs[i].receiver), i) = 1

\* C16, in every step: a receive that buffers leaves every clock and
\* delivered log as they were, and a message that leaves a buffer is in the
\* delivered log of that process.
C16_Step ==
    /\ (ReceiveStep /\ last'.res = "Buffered") =>
           /\ vector_clock' = vector_clock
           /\ matrix' = matrix
           /\ delivered' = delivered
    /\ \A r \in Procs : \A k \in 1 .. Len(BufferOf(r)) :
           LET i == BufferIds(r)[k]
               after == IF policy = "Matrix" THEN pending'[r] ELSE buffer'[r]
           IN  \/ Occurrences([j \in 1 .. Len(after) |-> IdOf(after[j])], i)
                      >= Occurrences(BufferIds(r), i)
               \/ Occurrences(delivered'[r], i) > Occurrences(delivered[r], i)

\* C16 (no message lost): when each message is handed over at most once,
\* every received message is either delivered (once) or buffered (once),
\* never both and never neither; a buffering receive changes no clock and
\* no log; a message leaves a buffer only by being delivered.
C16_NoMessageLost == [](C16_Places) /\ [][C16_Step]_vars

\* C17, in every call of receive_message of BSS and SES: no removal fails,
\* and the buffer after the call is the buffer before it (with the arriving
\* message at its end when that was buffered) without the messages the call
\* delivered, the others in their order.
C17_Step ==
    (policy # "Matrix" /\ ReceiveRan) =>
        LET r == IF last'.op = "receive_message" THEN last'.proc
                 ELSE msgs'[last'.msg].receiver
            before == BufferIds(r)
            now == [k \in 1 .. Len(buffer'[r]) |-> buffer'[r][k].id]
            new == SubSeq(delivered'[r], Len(delivered[r]) + 1,
                          Len(delivered'[r]))
            held == IF new = <<>> THEN Append(before, last'.msg) ELSE before
        IN  /\ last'.res # "ValueError"
            /\ now = SelectSeq(held, LAMBDA i : i \notin Range(new))

\* C17 (removal in check_buffer): check_buffer removes exactly the message
\* it has just delivered, keeps the other buffered messages in order, and
\* the removal never fails, also with another message of the same sender
\* earlier in the buffer or after a nested cascade.
C17_RemovalExact == [][C17_Step]_vars

\* C18 (MatrixClock, only diagonal cells change): in every state, every
\* off-diagonal cell of every process's matrix and of every message's
\* snapshot is 0.
C18_OffDiagonalZero ==
    policy = "Matrix" =>
        \A a \in Names : \A b \in Names \ {a} :
            /\ \A p \in Names : matrix[p][a][b] = 0
            /\ \A i \in 1 .. Len(msgs) : msgs[i].matrix[a][b] = 0
            /\ \A p \in Names : \A k \in 1 .. Len(pending[p]) :
                   pending[p][k].matrix[a][b] = 0

\* C18 happens: a process that delivered a message, and so merged a
\* snapshot into its matrix, has sent a message whose snapshot holds two
\* positive diagonal cells.
C18_Witness ==
    /\ policy = "Matrix"
    /\ \E i \in 1 .. Len(msgs) :
           /\ Len(delivered[msgs[i].sender]) >= 1
           /\ Cardinality({a \in Names : msgs[i].matrix[a][a] >= 1}) >= 2

\* The sends of run_simulation as the program has them: M1 = msgs[1] from
\* P1 to P2, M2 from P1 to P3, M3 from P2 to P3, M4 from P3 to P1 and M5
\* from P1 to P2; and all the calls have run.
SimAsWritten ==
    /\ policy = "Matrix"
    /\ SimDone = Len(Simulation)
    /\ [i \in 1 .. Len(msgs) |-> <<msgs[i].sender, msgs[i].receiver>>]
           = << <<"P1", "P2">>, <<"P1", "P3">>, <<"P2", "P3">>,
                <<"P3", "P1">>, <<"P1", "P2">> >>

\* C19 (run_simulation): the run ends with only M1 and M4 delivered, M5
\* buffered at P2, M2 and M3 (in that order) buffered at P3, and no
\* buffered message deliverable.
C19_SimulationResult ==
    SimAsWritten =>
        /\ delivered = [p \in Names |-> IF p = "P1" THEN <<4>>
                                        ELSE IF p = "P2" THEN <<1>> ELSE <<>>]
        /\ [p \in Names |-> BufferIds(p)]
               = [p \in Names |-> IF p = "P1" THEN <<>>
                                  ELSE IF p = "P2" THEN <<5>> ELSE <<2, 3>>]
        /\ \A p \in Names : \A k \in 1 .. Len(pending[p]) :
               is_deliverable(matrix[p], pending[p][k]) = "False"

\* C19 happens: run_simulation has run to its end, P1 having delivered M4
\* before it sent M5.
C19_Witness ==
    /\ SimAsWritten
    /\ handed = <<1, 1, 1, 1, 1>>
    /\ 4 \in msgs[5].past
    /\ matrix["P1"]["P1"]["P1"] = 4

\* The messages a process has sent to itself.
SelfSent == {i \in 1 .. Len(msgs) : msgs[i].sender = msgs[i].receiver}

\* C20, in every state: a message a process sent to itself is not in its
\* delivered log, does not pass the program's deliverability check against
\* its clock, and, once received, is in its buffer.
C20_Inv ==
    \A i \in SelfSent :
        LET p == msgs[i].sender
        IN  /\ Occurrences(delivered[p], i) = 0
            /\ ~DeliverableAt(p, msgs[i])
            /\ Occurrences(BufferIds(p), i) = handed[i]

\* C20, in every step: receiving a message sent to oneself buffers it, and
\* no step takes such a message out of the buffer.
C20_Step ==
    /\ (ReceiveRan /\ last'.msg \in SelfSent') => last'.res = "Buffered"
    /\ \A i \in SelfSent :
           LET p == msgs[i].sender
               after == IF policy = "Matrix" THEN pending'[p] ELSE buffer'[p]
           IN  Occurrences([j \in 1 .. Len(after) |-> IdOf(after[j])], i)
                   >= Occurrences(BufferIds(p), i)

\* C20 (messages to oneself): in all three programs a message a process
\* sends to itself is buffered on receive and never delivered: no later
\* send or delivery makes it deliverable, and it stays buffered.
C20_SelfNeverDelivered == [](C20_Inv) /\ [][C20_Step]_vars

\* C20 happens: a process holds a message of its own in its buffer, and has
\* since sent again and delivered a message of another process.
C20_Witness ==
    \E i \in SelfSent :
        LET p == msgs[i].sender
        IN  /\ Occurrences(BufferIds(p), i) >= 1
            /\ Len(delivered[p]) >= 1
            /\ Own(p) > SnapEntry(msgs[i], p)

====
